---- MODULE Spec2Model ----
(***************************************************************************)
(* State-machine model of the WebRTC signaling server:                     *)
(*   - the shared key-value store (room records, user sessions),           *)
(*   - the node-local connection registry and its readers-writer mutex,    *)
(*   - the signaling engine's handlers (join_room, leave_room, offer,      *)
(*     answer, ice_candidate) and the disconnect cleanup.                  *)
(* One step of the model is one blocking operation of the code (one KV     *)
(* call, one critical section of the registry mutex, one stream write)     *)
(* together with the local computation that follows it.                    *)
(***************************************************************************)
EXTENDS Integers, Sequences, FiniteSets, TLC

\* ------------------------------------------------------------------ bounds

\* Connection slots (each upgrade mints a fresh user id).
NumUsers == 3

\* Slots whose tasks run concurrently; where the frames are handled one at a
\* time, all slots act.
Concurrent == 2

\* Nodes that share the key-value store.
NumNodes == 2

\* Frames a connection of the capacity specification sends before it closes.
MaxFrames == 1

\* Longest payload (in tokens) a client sends with offer/answer/ice_candidate.
MaxPayloadLen == 2

\* Acting users listed in a room record that the room-service calls start from.
MaxListed == 2

\* ------------------------------------------------- program constants, ids

MaxRoomUsers == 10

\* The empty string used as a user id (no target id, mutex not held).
NoId == 0

Users == 1..NumUsers

\* Connections that are members of a room before the acting slots start:
\* they never send a frame and never close.
Members == (NumUsers + 1)..(NumUsers + MaxRoomUsers)

\* A target id that was never issued to any connection.
GhostId == NumUsers + MaxRoomUsers + 1

AllIds == Users \cup Members

Nodes == 1..NumNodes

RoomIds == {"A", "B"}

\* Room keys of the KV: "" is a key like any other.
RoomKeys == RoomIds \cup {""}

RelayTypes == {"offer", "answer", "ice_candidate"}

\* ------------------------------------------------------------ model.Room

NoRoom == [exists |-> FALSE, users |-> <<>>]

Contains(users, id) == \E i \in 1..Len(users) : users[i] = id

\* A variant of CanJoin that admits one member more than the limit.
CanJoinLoose(users) == Len(users) <= MaxRoomUsers

CanJoin(users) == Len(users) < MaxRoomUsers

\* A variant of AddUser that appends without looking for the id in the list.
AddUserAgain(users, id) ==
    IF ~CanJoin(users) THEN [ok |-> FALSE, users |-> users]
    ELSE [ok |-> TRUE, users |-> Append(users, id)]

\* Room.AddUser: the capacity test comes first, also for a member.
AddUser(users, id) ==
    IF ~CanJoin(users) THEN [ok |-> FALSE, users |-> users]
    ELSE IF Contains(users, id) THEN [ok |-> TRUE, users |-> users]
    ELSE [ok |-> TRUE, users |-> Append(users, id)]

\* Room.RemoveUser: removes the first occurrence.
RemoveUser(users, id) ==
    IF ~Contains(users, id) THEN users
    ELSE LET i == CHOOSE k \in 1..Len(users) :
                    /\ users[k] = id
                    /\ \A j \in 1..(k - 1) : users[j] # id
         IN  SubSeq(users, 1, i - 1) \o SubSeq(users, i + 1, Len(users))

IsEmpty(users) == Len(users) = 0

GetOtherUsers(users, id) == SelectSeq(users, LAMBDA x : x # id)

\* --------------------------------------------------- wire frames, payloads

\* A payload is a sequence of tokens: "x" a byte that JSON encoding keeps,
\* "ws" insignificant white space between JSON tokens, "lt" the byte '<'
\* inside a JSON string.
PayloadTokens == {"x", "ws", "lt"}

\* json.Unmarshal of the inbound frame accepts a data field that holds a
\* JSON value: something besides white space.
IsJSON(p) == \E i \in 1..Len(p) : p[i] # "ws"

\* json.Unmarshal into json.RawMessage keeps the bytes of the value.
DecodeRaw(p) == p

RECURSIVE EncodeRaw(_)
\* WriteJSON of a json.RawMessage field: the encoder compacts the raw value
\* (drops insignificant white space) and writes '<' as a six-byte escape.
EncodeRaw(p) ==
    IF p = <<>> THEN <<>>
    ELSE LET h == Head(p)
             t == EncodeRaw(Tail(p))
         IN  IF h = "ws" THEN t
             ELSE IF h = "lt" THEN <<"u003c">> \o t
             ELSE <<h>> \o t

\* An inbound frame: `uid` is the user_id the client wrote (NoId: none).
NoMsg == [type |-> "", room |-> "", uid |-> NoId, target |-> NoId, data |-> <<>>]

\* join_room whose data is the JSON object {"room_id": r}.
JoinFrame(r) == [type |-> "join_room", room |-> r, uid |-> NoId, target |-> NoId, data |-> <<"obj">>]

\* join_room whose data is that object wrapped in a JSON string.
JoinFrameString(r) == [type |-> "join_room", room |-> r, uid |-> NoId, target |-> NoId, data |-> <<"str">>]

LeaveFrame == [type |-> "leave_room", room |-> "", uid |-> NoId, target |-> NoId, data |-> <<>>]

RelayFrame(t, target, p) == [type |-> t, room |-> "", uid |-> NoId, target |-> target, data |-> p]

\* Text that json.Unmarshal does not accept as a frame.
BadFrame == [type |-> "unparseable", room |-> "", uid |-> NoId, target |-> NoId, data |-> <<>>]

\* A frame whose type is none of the kinds of the switch in HandleMessage.
UnknownFrame == [type |-> "unknown_kind", room |-> "", uid |-> NoId, target |-> NoId, data |-> <<>>]

\* An outbound frame as written to the stream of `to`.
\* `via` and `live` are not on the wire: how the frame was sent (direct reply,
\* fanout, relay) and whether `to` was in the registry when it was written.
Frame(to, type, room, uid, users, code, text, data, via) ==
    [to |-> to, type |-> type, room |-> room, uid |-> uid, users |-> users,
     code |-> code, text |-> text, data |-> data, via |-> via, live |-> TRUE]

NoFrame == Frame(NoId, "", "", NoId, <<>>, 0, "", <<>>, "")

ErrorFrame(to, code, text) == Frame(to, "error", "", NoId, <<>>, code, text, <<>>, "direct")

\* ------------------------------------------------------------------ state

VARIABLES
    kvRoom,       \* KV: room:<id> -> room record (exists, users)
    kvUser,       \* KV: user:<id> -> user session (exists, room, session)
    node,         \* the node that serves a connection slot (fixed)
    userID,       \* HandleWebSocket's userID: the id the stream of a slot was given
    connections,  \* SignalingService.connections: ids with a registry entry
    roomID,       \* model.User.RoomID, the cached room of a connection
    connMutex,    \* per node: NoId, or the id whose task holds the write lock
    pc,           \* position of each connection's task
    msg,          \* the inbound frame the task is handling
    loc,          \* local variables of the handler in progress
    sent,         \* frames written while handling the current inbound frame
    nread,        \* frames read so far, counted where the frames are bounded
    ping          \* position of each connection's keep-alive task

vars == <<kvRoom, kvUser, node, userID, connections, roomID, connMutex, pc, msg, loc, sent, nread, ping>>

NoLoc == [rid |-> "", snap |-> NoRoom, others |-> <<>>, todo |-> <<>>,
          acc |-> <<>>, ret |-> "", out |-> NoFrame]

\* The quiet members are served by node 1.
NodeOf(v) == IF v \in Users THEN node[v] ELSE 1

Registered(n, v) == v \in connections /\ NodeOf(v) = n

MutexFree(n) == connMutex[n] = NoId

\* KV primitives on room records.
GetRoom(r) == kvRoom[r]

SaveRoom(r, users) == kvRoom' = [kvRoom EXCEPT ![r] = [exists |-> TRUE, users |-> users]]

DeleteRoom(r) == kvRoom' = [kvRoom EXCEPT ![r] = NoRoom]

\* RedisRepository.GetRoomUsers: empty for an absent room.
GetRoomUsers(r) == IF GetRoom(r).exists THEN GetRoom(r).users ELSE <<>>

\* A variant of GetOtherUsersInRoom that does not exclude anybody.
GetAllUsersInRoom(r, exclude) == GetRoomUsers(r)

\* RoomService.GetOtherUsersInRoom
GetOtherUsersInRoom(r, exclude) == SelectSeq(GetRoomUsers(r), LAMBDA x : x # exclude)

\* A variant of IsRoomFull that never reports a full room.
IsRoomFullNever(r) == FALSE

\* RoomService.IsRoomFull
IsRoomFull(r) == IF ~GetRoom(r).exists THEN FALSE ELSE ~CanJoin(GetRoom(r).users)

\* RedisRepository.UpdateUserRoom: fails when the user session is absent.
UpdateUserRoomOk(v) == kvUser[v].exists

UpdateUserRoom(v, r) ==
    kvUser' = IF kvUser[v].exists THEN [kvUser EXCEPT ![v].room = r] ELSE kvUser

\* A variant that keeps the user_id the client wrote into its frame.
SenderIDClaimed(u) == IF msg[u].uid # NoId THEN msg[u].uid ELSE userID[u]

\* HandleMessage line 177 (msg.UserID = userID) and the handlers' user.ID:
\* the sender id of an outbound frame is the id the stream was given.
SenderID(u) == userID[u]

\* sendMessage: one write to the stream of f.to, by the task of u.
SendMessage(u, f) ==
    sent' = [sent EXCEPT ![u] = Append(@, [f EXCEPT !.live = (f.to \in connections)])]

Goto(u, label) == pc' = [pc EXCEPT ![u] = label]

\* ------------------------------------------------------- transport handler

\* The session cookies a client may present.
Sessions == {"s1", "s2"}

\* No user session under an id.
NoSession == [exists |-> FALSE, room |-> "", session |-> ""]

\* uuid.New() for the upgrade of the stream in slot u. The ids are named after
\* the slot whose upgrade draws them: the result is an id no earlier call
\* returned.
NewUUID(u) == u

\* A variant of GetOrCreateUser that returns the user session saved under the
\* session id, if there is one.
GetOrCreateUserFind(u, s) ==
    IF \E v \in AllIds : kvUser[v].exists /\ kvUser[v].session = s
    THEN CHOOSE v \in AllIds : kvUser[v].exists /\ kvUser[v].session = s
    ELSE NewUUID(u)

\* UserService.GetOrCreateUser(sessionID): no lookup by session id, always
\* CreateUser, whose ID is uuid.New().
GetOrCreateUser(u, s) == NewUUID(u)

\* HandleWebSocket, lines 542-550: GetOrCreateUser(sessionID) saves a user
\* session under the id it returns; that id is the userID of the stream.
CreateUser(u, s) ==
    /\ pc[u] = "new"
    /\ userID' = [userID EXCEPT ![u] = GetOrCreateUser(u, s)]
    /\ kvUser' = [kvUser EXCEPT ![GetOrCreateUser(u, s)] =
                      [exists |-> TRUE, room |-> "", session |-> s]]
    /\ Goto(u, "add")
    /\ UNCHANGED <<kvRoom, node, connections, roomID, connMutex, msg, loc, sent, nread, ping>>

\* AddConnection, then handleConnection up to its first read: the keep-alive
\* goroutine (lines 589-604) is started and waits in its select.
AddConnection(u) ==
    /\ pc[u] = "add"
    /\ MutexFree(node[u])
    /\ connections' = connections \cup {userID[u]}
    /\ roomID' = [roomID EXCEPT ![userID[u]] = ""]
    /\ ping' = [ping EXCEPT ![u] = "select"]
    /\ Goto(u, "idle")
    /\ UNCHANGED <<kvRoom, kvUser, node, userID, connMutex, msg, loc, sent, nread>>

\* A variant of the read loop that reads the next frame while the handling
\* of the previous one has not returned to the top of the loop.
ReadMessageEarly(u, f) ==
    /\ pc[u] \in {"idle", "activity"}
    /\ msg' = [msg EXCEPT ![u] = f]
    /\ Goto(u, "hm")
    /\ UNCHANGED <<kvRoom, kvUser, node, userID, connections, roomID, connMutex, loc, sent, nread, ping>>

\* The read loop reads the next text frame.
ReadMessage(u, f) ==
    /\ pc[u] = "idle"
    /\ msg' = [msg EXCEPT ![u] = f]
    /\ Goto(u, "hm")
    /\ UNCHANGED <<kvRoom, kvUser, node, userID, connections, roomID, connMutex, loc, sent, nread, ping>>

\* The same, for a client that sends at most MaxFrames frames.
ReadMessageBounded(u, f) ==
    /\ pc[u] = "idle"
    /\ nread[u] < MaxFrames
    /\ msg' = [msg EXCEPT ![u] = f]
    /\ nread' = [nread EXCEPT ![u] = @ + 1]
    /\ Goto(u, "hm")
    /\ UNCHANGED <<kvRoom, kvUser, node, userID, connections, roomID, connMutex, loc, sent, ping>>

\* The read loop ends with a read error: the stream is closed.
CloseStream(u) ==
    /\ pc[u] = "idle"
    /\ Goto(u, "rm")
    /\ UNCHANGED <<kvRoom, kvUser, node, userID, connections, roomID, connMutex, msg, loc, sent, nread, ping>>

\* UpdateUserActivity after HandleMessage returned; the next frame is read.
UpdateUserActivity(u) ==
    /\ pc[u] = "activity"
    /\ msg' = [msg EXCEPT ![u] = NoMsg]
    /\ loc' = [loc EXCEPT ![u] = NoLoc]
    /\ sent' = [sent EXCEPT ![u] = <<>>]
    /\ Goto(u, "idle")
    /\ UNCHANGED <<kvRoom, kvUser, node, userID, connections, roomID, connMutex, nread, ping>>

\* ------------------------------------------------------------ HandleMessage

\* The reply to a relay frame without target_id, lines 356, 374 and 392.
TargetRequired(t) ==
    CASE t = "offer" -> "Target user ID required for offer"
      [] t = "answer" -> "Target user ID required for answer"
      [] OTHER -> "Target user ID required for ICE candidate"

\* A variant of the relay handlers that forwards whatever it is handed.
RelayDispatchOpen(u) ==
    /\ loc' = [loc EXCEPT ![u].out =
                   Frame(msg[u].target, msg[u].type, msg[u].room, SenderID(u), <<>>, 0, "",
                         DecodeRaw(msg[u].data), "relay")]
    /\ Goto(u, "fw_get")

\* handleOffer / handleAnswer / handleIceCandidate up to forwardToUser.
RelayDispatch(u) ==
    IF roomID[u] = ""
    THEN /\ loc' = [loc EXCEPT ![u].out = ErrorFrame(u, 400, "User not in a room")]
         /\ Goto(u, "w_self")
    ELSE IF msg[u].target # NoId
    THEN /\ loc' = [loc EXCEPT ![u].out =
                       Frame(msg[u].target, msg[u].type, msg[u].room, SenderID(u), <<>>, 0, "",
                             DecodeRaw(msg[u].data), "relay")]
         /\ Goto(u, "fw_get")
    ELSE /\ loc' = [loc EXCEPT ![u].out = ErrorFrame(u, 400, TargetRequired(msg[u].type))]
         /\ Goto(u, "w_self")

\* A variant of handleJoinRoom without the leave of the prior room.
JoinDispatchStay(u) ==
    IF msg[u].data # <<"obj">>
    THEN /\ loc' = [loc EXCEPT ![u].out = ErrorFrame(u, 400, "Invalid join room data")]
         /\ Goto(u, "w_self")
    ELSE /\ loc' = [loc EXCEPT ![u].rid = msg[u].room]
         /\ Goto(u, "j_sweep")

\* handleJoinRoom, lines 205-217: json.Unmarshal of the data into JoinRoomData
\* (a JSON string is rejected), then leave the prior room first.
JoinDispatch(u) ==
    IF msg[u].data # <<"obj">>
    THEN /\ loc' = [loc EXCEPT ![u].out = ErrorFrame(u, 400, "Invalid join room data")]
         /\ Goto(u, "w_self")
    ELSE IF roomID[u] # "" /\ roomID[u] # msg[u].room
    THEN /\ loc' = [loc EXCEPT ![u].rid = msg[u].room, ![u].ret = "j_sweep"]
         /\ Goto(u, "lv_others")
    ELSE /\ loc' = [loc EXCEPT ![u].rid = msg[u].room]
         /\ Goto(u, "j_sweep")

\* handleLeaveRoom, lines 298-300.
LeaveDispatch(u) ==
    IF roomID[u] = ""
    THEN /\ Goto(u, "activity")
         /\ UNCHANGED loc
    ELSE /\ loc' = [loc EXCEPT ![u].ret = "activity"]
         /\ Goto(u, "lv_others")

\* A variant of the read loop that ends when HandleMessage returns an error.
AfterErrorBreak == "rm"

\* handleConnection, lines 621-624: an error returned by HandleMessage is
\* logged and the loop goes on with UpdateUserActivity.
AfterError == "activity"

\* HandleMessage: json.Unmarshal of the text, GetConnection(userID) under the
\* read lock, then the switch.
HandleMessage(u) ==
    /\ pc[u] = "hm"
    /\ msg[u].type # "unparseable" => (MutexFree(node[u]) /\ Registered(node[u], u))
    /\ CASE msg[u].type = "join_room" -> JoinDispatch(u)
         [] msg[u].type = "leave_room" -> LeaveDispatch(u)
         [] msg[u].type \in RelayTypes -> RelayDispatch(u)
         [] OTHER -> Goto(u, AfterError) /\ UNCHANGED loc
    /\ UNCHANGED <<kvRoom, kvUser, node, userID, connections, roomID, connMutex, msg, sent, nread, ping>>

\* A reply written to the sender's own stream; the handler returns.
WriteSelf(u) ==
    /\ pc[u] = "w_self"
    /\ SendMessage(u, loc[u].out)
    /\ Goto(u, "activity")
    /\ UNCHANGED <<kvRoom, kvUser, node, userID, connections, roomID, connMutex, msg, loc, nread, ping>>

\* ---------------------------------------------------------- handleLeaveRoom

\* GetOtherUsersInRoom(user.RoomID, user.ID), before the removal.
LeaveOthers(u) ==
    /\ pc[u] = "lv_others"
    /\ loc' = [loc EXCEPT ![u].others = GetOtherUsersInRoom(roomID[u], u)]
    /\ Goto(u, "lv_get")
    /\ UNCHANGED <<kvRoom, kvUser, node, userID, connections, roomID, connMutex, msg, sent, nread, ping>>

\* RoomService.LeaveRoom -> RemoveUserFromRoom: the read of the room record.
LeaveGetRoom(u) ==
    /\ pc[u] = "lv_get"
    /\ loc' = [loc EXCEPT ![u].snap = GetRoom(roomID[u])]
    /\ Goto(u, IF GetRoom(roomID[u]).exists THEN "lv_put" ELSE "lv_user")
    /\ UNCHANGED <<kvRoom, kvUser, node, userID, connections, roomID, connMutex, msg, sent, nread, ping>>

\* A variant of RemoveUserFromRoom that saves the record whatever is left.
RemoveUserFromRoomKeep(r, snapUsers, v) == SaveRoom(r, RemoveUser(snapUsers, v))

\* RemoveUserFromRoom: RemoveUser on the copy read, then DeleteRoom or SaveRoom.
RemoveUserFromRoomWrite(r, snapUsers, v) ==
    IF IsEmpty(RemoveUser(snapUsers, v))
    THEN DeleteRoom(r)
    ELSE SaveRoom(r, RemoveUser(snapUsers, v))

LeavePutRoom(u) ==
    /\ pc[u] = "lv_put"
    /\ RemoveUserFromRoomWrite(roomID[u], loc[u].snap.users, u)
    /\ loc' = [loc EXCEPT ![u].snap = NoRoom]
    /\ Goto(u, "lv_user")
    /\ UNCHANGED <<kvUser, node, userID, connections, roomID, connMutex, msg, sent, nread, ping>>

\* RoomService.LeaveRoom: UpdateUserRoom(userID, "").
LeaveUpdateUser(u) ==
    /\ pc[u] = "lv_user"
    /\ UpdateUserRoomOk(u)
    /\ UpdateUserRoom(u, "")
    /\ Goto(u, "lv_lock")
    /\ UNCHANGED <<kvRoom, node, userID, connections, roomID, connMutex, msg, loc, sent, nread, ping>>

\* A variant of the user_left frame without the list of the others.
UserLeftFrameBare(to, u, room, others) ==
    Frame(to, "user_left", room, SenderID(u), <<>>, 0, "", <<>>, "fanout")

\* The user_left frame for one recipient.
UserLeftFrame(to, u, room, others) ==
    Frame(to, "user_left", room, SenderID(u), others, 0, "", <<>>, "fanout")

\* Lines 313-336: connMutex.Lock(); user.RoomID = ""; Unlock; then the fan-out.
\* The lock is not reentrant: a task that already holds it waits here.
LeaveClearRoom(u) ==
    /\ pc[u] = "lv_lock"
    /\ MutexFree(node[u])
    /\ roomID' = [roomID EXCEPT ![u] = ""]
    /\ IF Len(loc[u].others) > 0
       THEN /\ loc' = [loc EXCEPT ![u].todo = loc[u].others,
                                  ![u].out = UserLeftFrame(NoId, u, roomID[u], loc[u].others)]
            /\ Goto(u, "bc_get")
       ELSE /\ loc' = [loc EXCEPT ![u].others = <<>>, ![u].ret = ""]
            /\ Goto(u, loc[u].ret)
    /\ UNCHANGED <<kvRoom, kvUser, node, userID, connections, connMutex, msg, sent, nread, ping>>

\* ------------------------------------------------- frames of handleJoinRoom

RoomFullFrame(to, room) == Frame(to, "room_full", room, NoId, <<>>, 0, "", <<>>, "direct")

UserJoinedFrame(to, u, room, users, via) ==
    Frame(to, "user_joined", room, SenderID(u), users, 0, "", <<>>, via)

\* A variant of activeUsers that lists the joining user alone.
ActiveUsersSelfOnly(connectedUsers, u) == <<u>>

\* Line 264: activeUsers = append(connectedUsers, user.ID).
ActiveUsers(connectedUsers, u) == Append(connectedUsers, u)

\* A variant of the fan-out frame that lists the connected others only.
JoinFanoutFrameBare(u, room, connectedUsers) ==
    UserJoinedFrame(NoId, u, room, connectedUsers, "fanout")

\* A variant of the echo that lists the connected others only.
JoinEchoFrameBare(u, room, connectedUsers) ==
    UserJoinedFrame(u, u, room, connectedUsers, "direct")

\* Lines 267-279: the frame handed to broadcastToUsers.
JoinFanoutFrame(u, room, connectedUsers) ==
    UserJoinedFrame(NoId, u, room, ActiveUsers(connectedUsers, u), "fanout")

\* Lines 286-292: the confirmation sent to the joining user.
JoinEchoFrame(u, room, connectedUsers) ==
    UserJoinedFrame(u, u, room, ActiveUsers(connectedUsers, u), "direct")

\* ---------------------------------------------------------- broadcastToUsers

\* Where the task goes when the fan-out is over.
AfterBroadcast(u) == IF loc[u].out.type = "user_left" THEN loc[u].ret ELSE "w_self"

BroadcastDone(u) ==
    IF loc[u].out.type = "user_left"
    THEN [loc[u] EXCEPT !.todo = <<>>, !.out = NoFrame, !.others = <<>>, !.ret = ""]
    ELSE [loc[u] EXCEPT !.todo = <<>>, !.acc = <<>>,
                        !.out = JoinEchoFrame(u, loc[u].rid, loc[u].acc)]

\* GetConnection(userID) for the next recipient.
BroadcastGet(u) ==
    /\ pc[u] = "bc_get"
    /\ MutexFree(node[u])
    /\ IF Registered(node[u], Head(loc[u].todo))
       THEN /\ Goto(u, "bc_write")
            /\ UNCHANGED loc
       ELSE IF Len(loc[u].todo) > 1
       THEN /\ loc' = [loc EXCEPT ![u].todo = Tail(@)]
            /\ UNCHANGED pc
       ELSE /\ loc' = [loc EXCEPT ![u] = BroadcastDone(u)]
            /\ Goto(u, AfterBroadcast(u))
    /\ UNCHANGED <<kvRoom, kvUser, node, userID, connections, roomID, connMutex, msg, sent, nread, ping>>

\* sendMessage(user, msg) to the recipient that was looked up.
BroadcastWrite(u) ==
    /\ pc[u] = "bc_write"
    /\ SendMessage(u, [loc[u].out EXCEPT !.to = Head(loc[u].todo)])
    /\ IF Len(loc[u].todo) > 1
       THEN /\ loc' = [loc EXCEPT ![u].todo = Tail(@)]
            /\ Goto(u, "bc_get")
       ELSE /\ loc' = [loc EXCEPT ![u] = BroadcastDone(u)]
            /\ Goto(u, AfterBroadcast(u))
    /\ UNCHANGED <<kvRoom, kvUser, node, userID, connections, roomID, connMutex, msg, nread, ping>>

\* ------------------------------------------ cleanupDisconnectedUsersFromRoom

\* GetRoomUsers(roomID): the members the sweep will look up.
SweepGetUsers(u) ==
    /\ pc[u] = "j_sweep"
    /\ loc' = [loc EXCEPT ![u].todo = GetRoomUsers(loc[u].rid), ![u].acc = <<>>,
                          ![u].ret = ""]
    /\ Goto(u, IF Len(GetRoomUsers(loc[u].rid)) > 0 THEN "sw_chk" ELSE "j_full")
    /\ UNCHANGED <<kvRoom, kvUser, node, userID, connections, roomID, connMutex, msg, sent, nread, ping>>

\* A variant of the sweep's loop body that collects every member.
SweepCollectAll(u, acc, v) == Append(acc, v)

\* Lines 458-462: a member without an entry in the registry of the node is
\* appended to disconnectedUsers.
SweepCollect(u, acc, v) == IF Registered(node[u], v) THEN acc ELSE Append(acc, v)

\* GetConnection(userID) for one member; the absent ones are collected.
SweepCheck(u) ==
    /\ pc[u] = "sw_chk"
    /\ MutexFree(node[u])
    /\ LET v == Head(loc[u].todo)
           acc == SweepCollect(u, loc[u].acc, v)
       IN  IF Len(loc[u].todo) > 1
           THEN /\ loc' = [loc EXCEPT ![u].todo = Tail(@), ![u].acc = acc]
                /\ UNCHANGED pc
           ELSE /\ loc' = [loc EXCEPT ![u].todo = acc, ![u].acc = <<>>]
                /\ Goto(u, IF Len(acc) > 0 THEN "sw_get" ELSE "j_full")
    /\ UNCHANGED <<kvRoom, kvUser, node, userID, connections, roomID, connMutex, msg, sent, nread, ping>>

\* LeaveRoom(userID, roomID) for an absent member: the read of the room record.
SweepGetRoom(u) ==
    /\ pc[u] = "sw_get"
    /\ loc' = [loc EXCEPT ![u].snap = GetRoom(loc[u].rid)]
    /\ Goto(u, IF GetRoom(loc[u].rid).exists THEN "sw_put" ELSE "sw_user")
    /\ UNCHANGED <<kvRoom, kvUser, node, userID, connections, roomID, connMutex, msg, sent, nread, ping>>

SweepPutRoom(u) ==
    /\ pc[u] = "sw_put"
    /\ RemoveUserFromRoomWrite(loc[u].rid, loc[u].snap.users, Head(loc[u].todo))
    /\ loc' = [loc EXCEPT ![u].snap = NoRoom]
    /\ Goto(u, "sw_user")
    /\ UNCHANGED <<kvUser, node, userID, connections, roomID, connMutex, msg, sent, nread, ping>>

\* UpdateUserRoom(userID, "") of the absent member; a failure is only logged.
SweepUpdateUser(u) ==
    /\ pc[u] = "sw_user"
    /\ UpdateUserRoom(Head(loc[u].todo), "")
    /\ loc' = [loc EXCEPT ![u].todo = Tail(@)]
    /\ Goto(u, IF Len(loc[u].todo) > 1 THEN "sw_get" ELSE "j_full")
    /\ UNCHANGED <<kvRoom, node, userID, connections, roomID, connMutex, msg, sent, nread, ping>>

\* ----------------------------------------------------------- handleJoinRoom

\* Lines 224-240: IsRoomFull, and the room_full reply.
JoinCheckFull(u) ==
    /\ pc[u] = "j_full"
    /\ IF IsRoomFull(loc[u].rid)
       THEN /\ loc' = [loc EXCEPT ![u].out = RoomFullFrame(u, loc[u].rid)]
            /\ Goto(u, "w_self")
       ELSE /\ UNCHANGED loc
            /\ Goto(u, "jr_get")
    /\ UNCHANGED <<kvRoom, kvUser, node, userID, connections, roomID, connMutex, msg, sent, nread, ping>>

JoinFailed(u) == ErrorFrame(u, 500, "Failed to join room")

\* RoomService.JoinRoom: GetRoom and the CanJoin test.
JoinRoomGet(u) ==
    /\ pc[u] = "jr_get"
    /\ IF GetRoom(loc[u].rid).exists /\ ~CanJoin(GetRoom(loc[u].rid).users)
       THEN /\ loc' = [loc EXCEPT ![u].out = JoinFailed(u)]
            /\ Goto(u, "w_self")
       ELSE /\ UNCHANGED loc
            /\ Goto(u, "ar_get")
    /\ UNCHANGED <<kvRoom, kvUser, node, userID, connections, roomID, connMutex, msg, sent, nread, ping>>

\* AddUserToRoom: GetRoom (a new empty room when absent), then Room.AddUser
\* on the copy.
AddUserToRoomGet(u) ==
    /\ pc[u] = "ar_get"
    /\ LET res == AddUser(GetRoomUsers(loc[u].rid), u)
       IN  IF res.ok
           THEN /\ loc' = [loc EXCEPT ![u].snap = [exists |-> TRUE, users |-> res.users]]
                /\ Goto(u, "ar_put")
           ELSE /\ loc' = [loc EXCEPT ![u].out = JoinFailed(u)]
                /\ Goto(u, "w_self")
    /\ UNCHANGED <<kvRoom, kvUser, node, userID, connections, roomID, connMutex, msg, sent, nread, ping>>

\* AddUserToRoom: SaveRoom of the copy.
AddUserToRoomPut(u) ==
    /\ pc[u] = "ar_put"
    /\ SaveRoom(loc[u].rid, loc[u].snap.users)
    /\ loc' = [loc EXCEPT ![u].snap = NoRoom]
    /\ Goto(u, "jr_user")
    /\ UNCHANGED <<kvUser, node, userID, connections, roomID, connMutex, msg, sent, nread, ping>>

\* RoomService.JoinRoom: UpdateUserRoom(userID, roomID).
JoinUpdateUser(u) ==
    /\ pc[u] = "jr_user"
    /\ UpdateUserRoomOk(u)
    /\ UpdateUserRoom(u, loc[u].rid)
    /\ Goto(u, "j_lock")
    /\ UNCHANGED <<kvRoom, node, userID, connections, roomID, connMutex, msg, loc, sent, nread, ping>>

\* Lines 249-252: connMutex.Lock(); user.RoomID = roomID; Unlock.
JoinSetRoom(u) ==
    /\ pc[u] = "j_lock"
    /\ MutexFree(node[u])
    /\ roomID' = [roomID EXCEPT ![u] = loc[u].rid]
    /\ Goto(u, "j_others")
    /\ UNCHANGED <<kvRoom, kvUser, node, userID, connections, connMutex, msg, loc, sent, nread, ping>>

\* Lines 262-293 once filterConnectedUsers returned connectedUsers: the
\* fan-out when somebody is connected, then the echo to the joiner.
JoinNotify(u, connectedUsers) ==
    IF Len(connectedUsers) > 0
    THEN /\ loc' = [loc EXCEPT ![u].todo = connectedUsers, ![u].acc = connectedUsers,
                      ![u].out = JoinFanoutFrame(u, loc[u].rid, connectedUsers)]
         /\ Goto(u, "bc_get")
    ELSE /\ loc' = [loc EXCEPT ![u].todo = <<>>, ![u].acc = <<>>,
                      ![u].out = JoinEchoFrame(u, loc[u].rid, connectedUsers)]
         /\ Goto(u, "w_self")

\* Lines 256-260: GetOtherUsersInRoom(roomID, user.ID); with nobody else in
\* the room filterConnectedUsers has nothing to look up.
JoinOthers(u) ==
    /\ pc[u] = "j_others"
    /\ LET others == GetOtherUsersInRoom(loc[u].rid, u)
       IN  IF Len(others) > 0
           THEN /\ loc' = [loc EXCEPT ![u].todo = others, ![u].acc = <<>>]
                /\ Goto(u, "f_chk")
           ELSE JoinNotify(u, <<>>)
    /\ UNCHANGED <<kvRoom, kvUser, node, userID, connections, roomID, connMutex, msg, sent, nread, ping>>

\* filterConnectedUsers: GetConnection(userID) for one of the other members.
FilterCheck(u) ==
    /\ pc[u] = "f_chk"
    /\ MutexFree(node[u])
    /\ LET v == Head(loc[u].todo)
           acc == IF Registered(node[u], v) THEN Append(loc[u].acc, v) ELSE loc[u].acc
       IN  IF Len(loc[u].todo) > 1
           THEN /\ loc' = [loc EXCEPT ![u].todo = Tail(@), ![u].acc = acc]
                /\ UNCHANGED pc
           ELSE JoinNotify(u, acc)
    /\ UNCHANGED <<kvRoom, kvUser, node, userID, connections, roomID, connMutex, msg, sent, nread, ping>>

\* ------------------------------------------------------------ forwardToUser

\* GetConnection(targetUserID); an absent target is an error returned to the
\* read loop, which logs it.
ForwardGet(u) ==
    /\ pc[u] = "fw_get"
    /\ MutexFree(node[u])
    /\ IF Registered(node[u], loc[u].out.to)
       THEN Goto(u, "fw_write")
       ELSE Goto(u, AfterError)
    /\ UNCHANGED <<kvRoom, kvUser, node, userID, connections, roomID, connMutex, msg, loc, sent, nread, ping>>

\* sendMessage(targetUser, msg): WriteJSON encodes the frame.
ForwardWrite(u) ==
    /\ pc[u] = "fw_write"
    /\ SendMessage(u, [loc[u].out EXCEPT !.data = EncodeRaw(@)])
    /\ Goto(u, "activity")
    /\ UNCHANGED <<kvRoom, kvUser, node, userID, connections, roomID, connMutex, msg, loc, nread, ping>>

\* --------------------------------------------------------- RemoveConnection

\* connMutex.Lock(), held until the function returns. With an empty cached
\* room the entry is deleted at once; otherwise handleLeaveRoom runs first.
RemoveConnection(u) ==
    /\ pc[u] = "rm"
    /\ MutexFree(node[u])
    /\ IF roomID[u] # ""
       THEN /\ connMutex' = [connMutex EXCEPT ![node[u]] = u]
            /\ loc' = [loc EXCEPT ![u].ret = "rm_del"]
            /\ Goto(u, "lv_others")
            /\ UNCHANGED connections
       ELSE /\ connections' = connections \ {u}
            /\ Goto(u, "gone")
            /\ UNCHANGED <<connMutex, loc>>
    /\ UNCHANGED <<kvRoom, kvUser, node, userID, roomID, msg, sent, nread, ping>>

\* delete(s.connections, userID) and the deferred Unlock.
RemoveDelete(u) ==
    /\ pc[u] = "rm_del"
    /\ connMutex[node[u]] = u
    /\ connections' = connections \ {u}
    /\ connMutex' = [connMutex EXCEPT ![node[u]] = NoId]
    /\ loc' = [loc EXCEPT ![u] = NoLoc]
    /\ Goto(u, "gone")
    /\ UNCHANGED <<kvRoom, kvUser, node, userID, roomID, msg, sent, nread, ping>>

\* ------------------------------------------------------------ specifications

RECURSIVE SeqsUpTo(_, _)
SeqsUpTo(S, n) ==
    IF n = 0 THEN {<<>>}
    ELSE LET shorter == SeqsUpTo(S, n - 1)
         IN  shorter \cup {Append(q, x) : q \in shorter, x \in S}

\* The payloads a client sends: JSON values of at most MaxPayloadLen tokens.
Payloads == {p \in SeqsUpTo(PayloadTokens, MaxPayloadLen) : IsJSON(p)}

JoinLeaveFrames ==
    {JoinFrame(r) : r \in RoomIds} \cup {JoinFrameString("A"), LeaveFrame}

\* The slots whose tasks run concurrently.
Actors == 1..Concurrent

RelayFrames ==
    {RelayFrame(t, target, p) :
        t \in RelayTypes, target \in Actors \cup {NoId, GhostId}, p \in Payloads}

\* The state after construction: empty KV, empty registry, no task started.
InitWith(nodes) ==
    /\ kvRoom = [r \in RoomKeys |-> NoRoom]
    /\ kvUser = [v \in AllIds |-> NoSession]
    /\ node \in [Users -> nodes]
    /\ node[1] = 1
    /\ userID = [v \in Users |-> NoId]
    /\ connections = {}
    /\ roomID = [v \in Users |-> ""]
    /\ connMutex = [n \in Nodes |-> NoId]
    /\ pc = [v \in Users |-> "new"]
    /\ msg = [v \in Users |-> NoMsg]
    /\ loc = [v \in Users |-> NoLoc]
    /\ sent = [v \in Users |-> <<>>]
    /\ nread = [v \in Users |-> 0]
    /\ ping = [v \in Users |-> "off"]

Init == InitWith({1})

\* The steps of the engine that a join_room, a leave_room or a close take.
RoomStep(u) ==
    \/ CreateUser(u, "s1")
    \/ AddConnection(u)
    \/ CloseStream(u)
    \/ HandleMessage(u)
    \/ WriteSelf(u)
    \/ UpdateUserActivity(u)
    \/ LeaveOthers(u)
    \/ LeaveGetRoom(u)
    \/ LeavePutRoom(u)
    \/ LeaveUpdateUser(u)
    \/ LeaveClearRoom(u)
    \/ BroadcastGet(u)
    \/ BroadcastWrite(u)
    \/ SweepGetUsers(u)
    \/ SweepCheck(u)
    \/ SweepGetRoom(u)
    \/ SweepPutRoom(u)
    \/ SweepUpdateUser(u)
    \/ JoinCheckFull(u)
    \/ JoinRoomGet(u)
    \/ AddUserToRoomGet(u)
    \/ AddUserToRoomPut(u)
    \/ JoinUpdateUser(u)
    \/ JoinSetRoom(u)
    \/ JoinOthers(u)
    \/ FilterCheck(u)
    \/ RemoveConnection(u)

RelayStep(u) ==
    \/ ForwardGet(u)
    \/ ForwardWrite(u)

Next ==
    \E u \in Actors :
        \/ RoomStep(u)
        \/ \E f \in JoinLeaveFrames : ReadMessage(u, f)

Spec == Init /\ [][Next]_vars

\* Relay of offer, answer and ice_candidate between the members of one room.
NextRelay ==
    \E u \in Actors :
        \/ RoomStep(u)
        \/ RelayStep(u)
        \/ ReadMessage(u, JoinFrame("A"))
        \/ ReadMessage(u, LeaveFrame)
        \/ \E f \in RelayFrames : ReadMessage(u, f)

SpecRelay == Init /\ [][NextRelay]_vars

\* The first k passive members, in the order they joined.
FirstMembers(k) == [i \in 1..k |-> NumUsers + i]

\* A state the server reaches after k quiet connections joined room "A" one
\* after the other on node 1 and stayed: the room record holds them, each
\* has a user session bound to "A" and a registry entry.
\* With pre, connection 1 joined after them and waits for its next frame.
InitCapWith(k, pre) ==
    LET in == {NumUsers + i : i \in 1..k} \cup (IF pre THEN {1} ELSE {}) IN
    /\ kvRoom = [r \in RoomKeys |->
                    IF r = "A"
                    THEN [exists |-> TRUE,
                          users |-> FirstMembers(k) \o (IF pre THEN <<1>> ELSE <<>>)]
                    ELSE NoRoom]
    /\ kvUser = [v \in AllIds |->
                    IF v \in in THEN [exists |-> TRUE, room |-> "A", session |-> "s1"]
                    ELSE NoSession]
    /\ node \in [Users -> Nodes]
    /\ \A v \in Users \ {Concurrent} : node[v] = 1
    /\ userID = [v \in Users |-> IF v \in in THEN v ELSE NoId]
    /\ connections = in
    /\ roomID = [v \in Users |-> IF v \in in THEN "A" ELSE ""]
    /\ connMutex = [n \in Nodes |-> NoId]
    /\ pc = [v \in Users |-> IF v \in in THEN "idle" ELSE "new"]
    /\ msg = [v \in Users |-> NoMsg]
    /\ loc = [v \in Users |-> NoLoc]
    /\ sent = [v \in Users |-> <<>>]
    /\ nread = [v \in Users |-> 0]
    /\ ping = [v \in Users |-> IF v \in in THEN "select" ELSE "off"]

InitCap ==
    \/ InitCapWith(MaxRoomUsers - 1, FALSE)
    \/ InitCapWith(MaxRoomUsers - 1, TRUE)
    \/ InitCapWith(MaxRoomUsers, FALSE)

\* Joins, leaves and closes on a room that is at or next to its capacity.
NextCap ==
    \E u \in Actors :
        \/ RoomStep(u)
        \/ ReadMessageBounded(u, JoinFrame("A"))
        \/ ReadMessageBounded(u, LeaveFrame)

SpecCap == InitCap /\ [][NextCap]_vars

\* Frames handled one at a time: a task steps only while every other task
\* waits for its next frame, has not started or is gone.
AtRest(v) == pc[v] \in {"new", "idle", "gone"}

NextSeq ==
    \E u \in Users :
        /\ \A v \in Users \ {u} : AtRest(v)
        /\ \/ RoomStep(u)
           \/ \E f \in JoinLeaveFrames : ReadMessage(u, f)

SpecSeq == Init /\ [][NextSeq]_vars

\* Frames that carry a user_id written by the client: none, the sender's own
\* id, or the id of somebody else.
ClaimedIds == Users \cup {NoId}

ClaimedFrames ==
    {[f EXCEPT !.uid = c] :
        f \in {JoinFrame("A"), LeaveFrame} \cup
               {RelayFrame("offer", target, <<"x">>) : target \in Actors},
        c \in ClaimedIds}

NextClaimedId ==
    \E u \in Users :
        /\ \A v \in Users \ {u} : AtRest(v)
        /\ \/ RoomStep(u)
           \/ RelayStep(u)
           \/ \E f \in ClaimedFrames : ReadMessage(u, f)

SpecClaimedId == Init /\ [][NextClaimedId]_vars

\* Two server nodes that share the KV store, each connection served by one
\* of them; joins, leaves and offers, the frames handled one at a time.
NodesFrames ==
    {JoinFrame("A"), LeaveFrame} \cup
    {RelayFrame("offer", target, <<"x">>) : target \in Actors}

NextNodes ==
    \E u \in Users :
        /\ \A v \in Users \ {u} : AtRest(v)
        /\ \/ RoomStep(u)
           \/ RelayStep(u)
           \/ \E f \in NodesFrames : ReadMessage(u, f)

SpecNodes == InitWith(Nodes) /\ [][NextNodes]_vars

\* Joins of room "A" and of the room with the empty id (a join_room whose
\* data carries no room_id, or an empty one), the frames handled one at a time.
EmptyIdFrames == {JoinFrame(""), JoinFrame("A"), LeaveFrame}

NextEmptyId ==
    \E u \in Users :
        /\ \A v \in Users \ {u} : AtRest(v)
        /\ \/ RoomStep(u)
           \/ \E f \in EmptyIdFrames : ReadMessage(u, f)

SpecEmptyId == Init /\ [][NextEmptyId]_vars

\* Joins and leaves of rooms "A" and "B" where "A" is full of connected
\* members, the frames handled one at a time.
SpecFull == InitCapWith(MaxRoomUsers, FALSE) /\ [][NextSeq]_vars

\* Joins, leaves and relay frames of every kind, handled one at a time.
NextSeqRelay ==
    \E u \in Users :
        /\ \A v \in Users \ {u} : AtRest(v)
        /\ \/ RoomStep(u)
           \/ RelayStep(u)
           \/ ReadMessage(u, JoinFrame("A"))
           \/ ReadMessage(u, LeaveFrame)
           \/ \E f \in RelayFrames : ReadMessage(u, f)

SpecSeqRelay == Init /\ [][NextSeqRelay]_vars

\* Streams of clients that present any of the session cookies, their frames
\* handled one at a time.
NextUpgrade ==
    \E u \in Users :
        /\ \A v \in Users \ {u} : AtRest(v)
        /\ \/ RoomStep(u)
           \/ \E s \in Sessions : CreateUser(u, s)
           \/ ReadMessage(u, JoinFrame("A"))
           \/ ReadMessage(u, LeaveFrame)

SpecUpgrade == Init /\ [][NextUpgrade]_vars

\* A state the server is in when room "A" was filled by MaxRoomUsers quiet
\* connections and only those in live still have a registry entry on node 1
\* (the others went away without their cleanup, as after a restart of the
\* node): the record lists all of them.
InitStaleWith(live) ==
    /\ kvRoom = [r \in RoomKeys |->
                    IF r = "A"
                    THEN [exists |-> TRUE, users |-> FirstMembers(MaxRoomUsers)]
                    ELSE NoRoom]
    /\ kvUser = [v \in AllIds |->
                    IF v \in Members THEN [exists |-> TRUE, room |-> "A", session |-> "s1"]
                    ELSE NoSession]
    /\ node = [v \in Users |-> 1]
    /\ userID = [v \in Users |-> NoId]
    /\ connections = live
    /\ roomID = [v \in Users |-> ""]
    /\ connMutex = [n \in Nodes |-> NoId]
    /\ pc = [v \in Users |-> "new"]
    /\ msg = [v \in Users |-> NoMsg]
    /\ loc = [v \in Users |-> NoLoc]
    /\ sent = [v \in Users |-> <<>>]
    /\ nread = [v \in Users |-> 0]
    /\ ping = [v \in Users |-> "off"]

InitStale ==
    \/ InitStaleWith({})
    \/ InitStaleWith({NumUsers + 1})
    \/ InitStaleWith({NumUsers + 2, NumUsers + MaxRoomUsers})
    \/ InitStaleWith(Members)

\* Joins and leaves on a room whose record lists stale members, the frames
\* handled one at a time.
SpecStale == InitStale /\ [][NextSeq]_vars

\* The engine with a scheduler that lets every task that can step do so: each
\* connection has its own goroutine. Whether a client closes its stream or
\* sends a frame is up to the client.
SpecLive ==
    Init /\ [][Next]_vars /\ \A u \in Actors : WF_vars(pc[u] # "idle" /\ RoomStep(u))

\* ----------------------------------------------------- failing calls to the KV

\* A call to the KV returns an error, at any of the calls of handleJoinRoom,
\* handleLeaveRoom and the sweep; the handler takes the branch for err != nil.
KVFail(u) ==
    /\ CASE pc[u] = "lv_others" ->
              \* line 304: logged, otherUsers stays nil
              /\ loc' = [loc EXCEPT ![u].others = <<>>]
              /\ Goto(u, "lv_get")
         [] pc[u] \in {"lv_get", "lv_put", "lv_user"} ->
              \* line 310: sendError(user, 500, "Failed to leave room")
              /\ loc' = [loc EXCEPT ![u].snap = NoRoom,
                                    ![u].out = ErrorFrame(u, 500, "Failed to leave room")]
              /\ Goto(u, "lv_err")
         [] pc[u] = "j_sweep" ->
              \* line 220: logged
              /\ loc' = [loc EXCEPT ![u].todo = <<>>, ![u].acc = <<>>, ![u].ret = ""]
              /\ Goto(u, "j_full")
         [] pc[u] \in {"sw_get", "sw_put", "sw_user"} ->
              \* line 469: logged, next absent member
              /\ loc' = [loc EXCEPT ![u].snap = NoRoom, ![u].todo = Tail(@)]
              /\ Goto(u, IF Len(loc[u].todo) > 1 THEN "sw_get" ELSE "j_full")
         [] pc[u] = "j_full" ->
              \* line 227
              /\ loc' = [loc EXCEPT ![u].out =
                             ErrorFrame(u, 500, "Failed to check room status")]
              /\ Goto(u, "w_self")
         [] pc[u] \in {"jr_get", "ar_get", "ar_put", "jr_user"} ->
              \* line 246
              /\ loc' = [loc EXCEPT ![u].snap = NoRoom, ![u].out = JoinFailed(u)]
              /\ Goto(u, "w_self")
         [] pc[u] = "j_others" ->
              \* line 258: logged, otherUsers stays nil
              JoinNotify(u, <<>>)
         [] OTHER -> FALSE
    /\ UNCHANGED <<kvRoom, kvUser, node, userID, connections, roomID, connMutex, msg, sent, nread, ping>>

\* RoomService.JoinRoom, line 47: the room was saved and the user session
\* updated, and the final GetRoom returns an error.
JoinReturnFail(u) ==
    /\ pc[u] = "jr_user"
    /\ UpdateUserRoomOk(u)
    /\ UpdateUserRoom(u, loc[u].rid)
    /\ loc' = [loc EXCEPT ![u].out = JoinFailed(u)]
    /\ Goto(u, "w_self")
    /\ UNCHANGED <<kvRoom, node, userID, connections, roomID, connMutex, msg, sent, nread, ping>>

\* handleLeaveRoom, line 310: the error frame is written and the function
\* returns to its caller, the cached room still set.
LeaveFailed(u) ==
    /\ pc[u] = "lv_err"
    /\ SendMessage(u, loc[u].out)
    /\ loc' = [loc EXCEPT ![u].others = <<>>, ![u].out = NoFrame, ![u].ret = ""]
    /\ Goto(u, loc[u].ret)
    /\ UNCHANGED <<kvRoom, kvUser, node, userID, connections, roomID, connMutex, msg, nread, ping>>

\* Frames of every kind the engine answers with an error or drops.
FailFrames ==
    {JoinFrame("A"), JoinFrameString("A"), LeaveFrame, BadFrame, UnknownFrame,
     RelayFrame("offer", NoId, <<"x">>)}
    \cup {RelayFrame("offer", target, <<"x">>) : target \in Actors \cup {GhostId}}

\* The engine with calls to the KV that may fail.
NextFail ==
    \E u \in Actors :
        \/ RoomStep(u)
        \/ RelayStep(u)
        \/ KVFail(u)
        \/ JoinReturnFail(u)
        \/ LeaveFailed(u)
        \/ RemoveDelete(u)
        \/ \E f \in FailFrames : ReadMessage(u, f)

SpecFail == Init /\ [][NextFail]_vars

\* ------------------------------------------------- room-service calls alone

\* RoomService.LeaveRoom(v, r), called by the task of u with nothing running
\* beside it: RemoveUserFromRoom, then UpdateUserRoom(v, ""). The task is
\* left where the caller tests the error returned.
LeaveRoomCall(u, v, r) ==
    /\ pc[u] = "svc"
    /\ IF GetRoom(r).exists
       THEN RemoveUserFromRoomWrite(r, GetRoom(r).users, v)
       ELSE UNCHANGED kvRoom
    /\ UpdateUserRoom(v, "")
    /\ Goto(u, IF UpdateUserRoomOk(v) THEN "svc_ok" ELSE "svc_err")
    /\ UNCHANGED <<node, userID, connections, roomID, connMutex, msg, loc, sent, nread, ping>>

\* RoomService.JoinRoom(v, r), called the same way: the CanJoin test on the
\* record, AddUserToRoom, UpdateUserRoom(v, r).
JoinRoomCall(u, v, r) ==
    /\ pc[u] = "svc"
    /\ IF GetRoom(r).exists /\ ~CanJoin(GetRoom(r).users)
       THEN /\ Goto(u, "svc_full")
            /\ UNCHANGED <<kvRoom, kvUser>>
       ELSE IF ~AddUser(GetRoomUsers(r), v).ok
       THEN /\ Goto(u, "svc_err")
            /\ UNCHANGED <<kvRoom, kvUser>>
       ELSE /\ SaveRoom(r, AddUser(GetRoomUsers(r), v).users)
            /\ UpdateUserRoom(v, r)
            /\ Goto(u, IF UpdateUserRoomOk(v) THEN "svc_ok" ELSE "svc_err")
    /\ UNCHANGED <<node, userID, connections, roomID, connMutex, msg, loc, sent, nread, ping>>

\* The caller has looked at the result and may call again.
ServiceReturn(u) ==
    /\ pc[u] \in {"svc_ok", "svc_err", "svc_full"}
    /\ Goto(u, "svc")
    /\ UNCHANGED <<kvRoom, kvUser, node, userID, connections, roomID, connMutex, msg, loc, sent, nread, ping>>

\* Sequences over S, at most n long, without a repeated element.
NoDupSeqs(S, n) ==
    {q \in SeqsUpTo(S, n) : \A i \in 1..Len(q) : \A j \in 1..Len(q) : i # j => q[i] # q[j]}

\* Room records the calls start from: absent, or a non-empty list of k quiet
\* members followed by at most MaxListed acting users, within the limit. A
\* user session is bound to no room or to a room that lists the user.
ServiceRecords(ks) ==
    {NoRoom} \cup
    UNION {{[exists |-> TRUE, users |-> FirstMembers(k) \o q] :
               q \in {x \in NoDupSeqs(Users, MaxListed) :
                         0 < k + Len(x) /\ k + Len(x) <= MaxRoomUsers}} : k \in ks}

InitService ==
    /\ kvRoom \in [RoomKeys -> ServiceRecords({0, MaxRoomUsers - 1, MaxRoomUsers})]
    /\ kvRoom[""] = NoRoom
    /\ kvRoom["B"] \in ServiceRecords({0})
    /\ kvUser \in [AllIds -> {[exists |-> TRUE, room |-> r, session |-> "s1"] : r \in RoomKeys}]
    /\ \A v \in Members : kvUser[v].room = "A"
    /\ \A v \in Users : kvUser[v].room # "" => Contains(GetRoomUsers(kvUser[v].room), v)
    /\ node = [v \in Users |-> 1]
    /\ userID = [v \in Users |-> NoId]
    /\ connections = {}
    /\ roomID = [v \in Users |-> ""]
    /\ connMutex = [n \in Nodes |-> NoId]
    /\ pc = [v \in Users |-> IF v = 1 THEN "svc" ELSE "new"]
    /\ msg = [v \in Users |-> NoMsg]
    /\ loc = [v \in Users |-> NoLoc]
    /\ sent = [v \in Users |-> <<>>]
    /\ nread = [v \in Users |-> 0]
    /\ ping = [v \in Users |-> "off"]

NextService ==
    \/ \E v \in Users : \E r \in RoomIds : LeaveRoomCall(1, v, r)
    \/ \E v \in Users : \E r \in RoomIds : JoinRoomCall(1, v, r)
    \/ ServiceReturn(1)

SpecService == InitService /\ [][NextService]_vars

\* ------------------------------------------------------------------- claims

\* The task of u is inside RemoveConnection with a non-empty cached room.
InCleanup(u) == connMutex[node[u]] = u

\* Positions at which a task waits for the registry mutex.
MutexWaits == {"add", "hm", "lv_lock", "bc_get", "sw_chk", "j_lock", "f_chk", "fw_get", "rm"}

\* The task of v is not inside a handler, or waits for a mutex that is held.
Parked(v) == AtRest(v) \/ (pc[v] \in MutexWaits /\ ~MutexFree(node[v]))

\* The last handler of u was a join_room that replied neither with an error
\* nor with room_full.
JoinSucceeded(u) ==
    /\ pc[u] = "activity"
    /\ msg[u].type = "join_room"
    /\ \A i \in 1..Len(sent[u]) : sent[u][i].type \notin {"error", "room_full"}

\* The user_joined frames the task of u wrote while handling its frame.
JoinedFrames(u) == SelectSeq(sent[u], LAMBDA f : f.type = "user_joined")

\* Every task runs on node 1.
SingleNode == \A v \in Users : node[v] = 1

\* The record of r holds MaxRoomUsers members, each with a connection on node 1.
FullOfLive(r) ==
    /\ Len(GetRoomUsers(r)) = MaxRoomUsers
    /\ \A i \in 1..Len(GetRoomUsers(r)) : Registered(1, GetRoomUsers(r)[i])

\* C1: once the disconnect cleanup of a user that was in room R has done its
\* leave and the handlers that ran beside it have come to rest, the record
\* of R is absent or does not contain the user.
C1_CleanupRemovesUser ==
    \A u \in Users :
        (/\ InCleanup(u)
         /\ pc[u] = "lv_lock"
         /\ \A v \in Users \ {u} : Parked(v))
        => ~Contains(GetRoomUsers(roomID[u]), u)

\* C2: disconnect cleanup of a connection whose cached room is non-empty
\* always terminates (while it runs, its task can take its next step), and
\* once it has ended the user id has no entry in the connection registry.
C2_CleanupTerminates ==
    \A u \in Users :
        /\ InCleanup(u) => ENABLED RoomStep(u)
        /\ pc[u] = "gone" => u \notin connections

\* C3: with every task on one node a room record never holds more than
\* MaxRoomUsers member ids; with tasks on several nodes it never holds more
\* than MaxRoomUsers + 1.
C3_Capacity ==
    \A r \in RoomKeys :
        Len(GetRoomUsers(r)) <= (IF SingleNode THEN MaxRoomUsers ELSE MaxRoomUsers + 1)

\* Two joins raced for the last place of room "A": the task of u holds a copy
\* of the record with itself as the last member, while the record in the KV
\* is full and ends with the other joiner.
C3_Witness ==
    \E u \in Actors :
        /\ pc[u] = "ar_put"
        /\ Len(loc[u].snap.users) = MaxRoomUsers
        /\ Len(GetRoomUsers("A")) = MaxRoomUsers
        /\ ~Contains(GetRoomUsers("A"), u)

\* C4: when A, in a room, has sent an offer, answer or ice_candidate for B
\* and the relay found B registered, the target got exactly one frame, of
\* the same kind, with user_id = A and the payload A sent.
C4_RelayVerbatim ==
    \A a \in Actors :
        (/\ pc[a] = "activity"
         /\ msg[a].type \in RelayTypes
         /\ msg[a].target # a
         /\ sent[a] # <<>>
         /\ sent[a][1].type # "error")
        => /\ Len(sent[a]) = 1
           /\ sent[a][1].to = msg[a].target
           /\ sent[a][1].type = msg[a].type
           /\ sent[a][1].uid = a
           /\ sent[a][1].data = msg[a].data

\* C5: when a sender in a room has sent an offer whose target has no
\* connection in the registry, the sender got an error frame that says
\* "target user not connected", and the sender is still registered.
C5_AbsentTargetError ==
    \A a \in Actors :
        (/\ pc[a] = "activity"
         /\ msg[a].type = "offer"
         /\ roomID[a] # ""
         /\ msg[a].target = GhostId)
        => /\ \E i \in 1..Len(sent[a]) :
                /\ sent[a][i].type = "error"
                /\ sent[a][i].to = a
                /\ sent[a][i].text = "target user not connected"
           /\ a \in connections

\* The is-full check of a join by u, when the room is full of live members
\* and u is not one of them: the reply is room_full for that room.
C6_Check(u) ==
    (/\ pc[u] = "j_full"
     /\ pc'[u] # "j_full"
     /\ SingleNode
     /\ FullOfLive(loc[u].rid)
     /\ roomID[u] # loc[u].rid
     /\ ~Contains(GetRoomUsers(loc[u].rid), u))
    => /\ pc'[u] = "w_self"
       /\ loc'[u].out = RoomFullFrame(u, loc[u].rid)
       /\ UNCHANGED <<kvRoom, roomID, sent>>

\* The room_full reply to u, not a member: it ends the handler, with u not
\* added, its cached room not set and no user_joined written.
C6_Reply(u) ==
    (/\ pc[u] = "w_self"
     /\ pc'[u] # "w_self"
     /\ loc[u].out.type = "room_full"
     /\ roomID[u] # loc[u].out.room
     /\ ~Contains(GetRoomUsers(loc[u].out.room), u))
    => /\ pc'[u] = "activity"
       /\ sent'[u] = Append(sent[u], loc[u].out)
       /\ JoinedFrames(u)' = <<>>
       /\ roomID'[u] # loc[u].out.room
       /\ ~Contains(GetRoomUsers(loc[u].out.room)', u)

\* C6: on one node, a join_room for a room that has MaxRoomUsers members,
\* all with live local connections, sent by a connection that is not one of
\* them, is answered with room_full for that room; the sender is not added
\* to the record, its cached room is not set and no user_joined is sent.
C6_RoomFull == [][\A u \in Actors : C6_Check(u) /\ C6_Reply(u)]_vars

\* The handler of a join by u has ended with the room_full reply, the room
\* still full of live members.
C6_Witness ==
    \E u \in Actors :
        /\ pc[u] = "activity"
        /\ SingleNode
        /\ FullOfLive("A")
        /\ sent[u] = <<RoomFullFrame(u, "A")>>
        /\ roomID[u] = ""
        /\ ~Contains(GetRoomUsers("A"), u)

\* C7: every frame was written to a stream whose connection was in the
\* registry at the time of the write.
C7_NoWriteAfterRemoval ==
    \A u \in Actors : \A i \in 1..Len(sent[u]) : sent[u][i].live

\* C8: no user_joined frame goes through the fan-out to the user it is
\* about, and a successful join writes exactly one user_joined frame to the
\* joiner, the direct echo.
C8_NoSelfNotify ==
    \A u \in Actors :
        /\ \A i \in 1..Len(sent[u]) :
              (sent[u][i].type = "user_joined" /\ sent[u][i].via = "fanout")
              => sent[u][i].to # sent[u][i].uid
        /\ JoinSucceeded(u)
           => /\ Len(SelectSeq(JoinedFrames(u), LAMBDA f : f.to = u)) = 1
              /\ sent[u][Len(sent[u])].to = u
              /\ sent[u][Len(sent[u])].type = "user_joined"
              /\ sent[u][Len(sent[u])].via = "direct"

\* A join has ended after a fan-out to a peer and the echo.
C8_Witness ==
    \E u \in Actors :
        /\ JoinSucceeded(u)
        /\ Len(JoinedFrames(u)) = 2
        /\ JoinedFrames(u)[1].via = "fanout"
        /\ JoinedFrames(u)[1].to # u

\* C9 as stated: the id of the joining user is not in the users list of a
\* user_joined frame fanned out to its peers.
C9_JoinerNotInFanout ==
    \A u \in Actors : \A i \in 1..Len(sent[u]) :
        (sent[u][i].type = "user_joined" /\ sent[u][i].via = "fanout")
        => ~Contains(sent[u][i].users, sent[u][i].uid)

\* C9: the id of the joining user is the last entry, and occurs once, in the
\* users list of every user_joined frame: the ones fanned out to its peers
\* and the echo alike.
C9_JoinerInEveryList ==
    \A u \in Actors : \A i \in 1..Len(sent[u]) :
        sent[u][i].type = "user_joined"
        => /\ sent[u][i].users # <<>>
           /\ sent[u][i].users[Len(sent[u][i].users)] = sent[u][i].uid
           /\ Len(SelectSeq(sent[u][i].users, LAMBDA x : x = sent[u][i].uid)) = 1

\* A user_joined frame was fanned out to a peer of the joiner.
C9_Witness ==
    \E u \in Actors : \E i \in 1..Len(sent[u]) :
        /\ sent[u][i].type = "user_joined"
        /\ sent[u][i].via = "fanout"
        /\ sent[u][i].to # u
        /\ Contains(sent[u][i].users, u)

\* The other members of r that have a connection on the node of u.
ConnectedOthers(u, r) ==
    SelectSeq(GetOtherUsersInRoom(r, u), LAMBDA v : Registered(node[u], v))

\* C10: after a successful join, handled while no other handler runs, every
\* user_joined frame carries the other members of the room that have a local
\* connection followed by the joiner; one frame went to each of those
\* members and the last one, with the same payload, to the joiner; a join of
\* an empty room wrote exactly one frame, with users = <<joiner>>.
C10_UsersList ==
    \A u \in Users :
        JoinSucceeded(u)
        => LET r == msg[u].room
               J == JoinedFrames(u)
               co == ConnectedOthers(u, r)
           IN  /\ Len(J) = Len(co) + 1
               /\ \A i \in 1..Len(J) :
                     /\ J[i].uid = u
                     /\ J[i].room = r
                     /\ J[i].users = Append(co, u)
               /\ \A i \in 1..Len(co) : J[i].to = co[i] /\ J[i].via = "fanout"
               /\ J[Len(J)].to = u
               /\ J[Len(J)].via = "direct"
               /\ Contains(J[Len(J)].users, u)
               /\ (GetOtherUsersInRoom(r, u) = <<>>
                   => J = <<UserJoinedFrame(u, u, r, <<u>>, "direct")>>)

\* A join of a room where two members are connected has ended.
C10_Witness ==
    \E u \in Users :
        /\ JoinSucceeded(u)
        /\ Len(ConnectedOthers(u, msg[u].room)) = 2
        /\ Len(JoinedFrames(u)) = 3

\* Every frame written to the stream of u by the handlers in progress.
FramesTo(u) ==
    [v \in Users |-> SelectSeq(sent[v], LAMBDA f : f.to = u)]

\* The join of u has ended in a room whose record is <<v, u>>, v connected:
\* v joined first, then u.
JoinedSecond(u, v) ==
    /\ u # v
    /\ JoinSucceeded(u)
    /\ GetRoomUsers(msg[u].room) = <<v, u>>
    /\ Registered(node[u], v)

\* C11 as stated: when U1 and then U2 joined room R, U2 got exactly one
\* user_joined frame, with users = <<U2>>, and nothing more.
C11_SecondSeesSelfOnly ==
    \A u \in Users : \A v \in Users :
        JoinedSecond(u, v)
        => /\ FramesTo(u)[u] = <<UserJoinedFrame(u, u, msg[u].room, <<u>>, "direct")>>
           /\ \A w \in Users \ {u} : FramesTo(u)[w] = <<>>

\* C11: when U1 and then U2 joined room R on one node, U2 got exactly one
\* frame, a user_joined with users = <<U1, U2>>, and nothing more.
C11_SecondSeesBoth ==
    \A u \in Users : \A v \in Users :
        JoinedSecond(u, v)
        => /\ FramesTo(u)[u] = <<UserJoinedFrame(u, u, msg[u].room, <<v, u>>, "direct")>>
           /\ \A w \in Users \ {u} : FramesTo(u)[w] = <<>>

\* The second of two joins of a room has ended, its fan-out frame written
\* to the first member.
C11_Witness ==
    \E u \in Users : \E v \in Users :
        /\ JoinedSecond(u, v)
        /\ FramesTo(v)[u] # <<>>

\* C12: RoomService.LeaveRoom(v, r) for a room that is absent or does not
\* list v returns success and changes nothing: the member list of every room
\* record and the current-room binding of v are the same after the call.
C12_LeaveNoOp ==
    [][\A v \in Users : \A r \in RoomIds :
          (LeaveRoomCall(1, v, r) /\ ~Contains(GetRoomUsers(r), v))
          => /\ pc'[1] = "svc_ok"
             /\ \A q \in RoomKeys : GetRoomUsers(q)' = GetRoomUsers(q)
             /\ kvUser'[v].room = kvUser[v].room]_vars

\* C13: on one node, when no handler is in progress, a registered
\* connection with a non-empty cached room R is a member of the record of R.
C13_CachedRoomIsMember ==
    \A u \in Actors :
        (/\ \A v \in Users : AtRest(v)
         /\ u \in connections
         /\ pc[u] = "idle"
         /\ roomID[u] # "")
        => Contains(GetRoomUsers(roomID[u]), u)

\* The stream the task of u is writing to: at these positions the task has
\* entered sendMessage, and the step that leaves the position is the return
\* of WriteJSON. sendMessage takes no lock.
WritingTo(u) ==
    CASE pc[u] = "w_self" -> u
      [] pc[u] = "bc_write" -> Head(loc[u].todo)
      [] pc[u] = "fw_write" -> loc[u].out.to
      [] OTHER -> NoId

\* C14: no two tasks are writing to the same stream at the same time.
C14_OneWriterPerStream ==
    \A u \in Actors : \A v \in Actors :
        (u # v /\ WritingTo(u) # NoId) => WritingTo(u) # WritingTo(v)

\* Positions at which the next step of a task is a call to the shared KV.
KVCalls ==
    {"new", "activity", "lv_others", "lv_get", "lv_put", "lv_user", "j_sweep",
     "sw_get", "sw_put", "sw_user", "j_full", "jr_get", "ar_get", "ar_put",
     "jr_user", "j_others"}

\* C15: no task holds the registry mutex while it is in a call to the shared
\* KV or in a write to a stream.
C15_NoMutexAcrossIO ==
    \A u \in Actors :
        connMutex[node[u]] = u => (pc[u] \notin KVCalls /\ WritingTo(u) = NoId)

\* The task of u is inside HandleMessage for a frame it read, not in the
\* cleanup that follows the end of its read loop.
Handling(u) ==
    /\ pc[u] \notin {"new", "add", "idle", "rm", "rm_del", "gone"}
    /\ ~InCleanup(u)

\* C16: no step taken while a frame is handled, whatever error the engine
\* meets (unparseable frame, unknown kind, failed validation, absent target,
\* failing KV call), ends the read loop of the sender or changes whether the
\* sender has a registry entry; after the handler the loop is back at the read.
C16_ErrorsKeepLoop ==
    [][\A u \in Actors :
          Handling(u) =>
              /\ pc'[u] \notin {"rm", "rm_del", "gone"}
              /\ (u \in connections) = (u \in connections')
              /\ pc[u] = "activity" => pc'[u] \in {"activity", "idle"}]_vars

\* One task has dropped a frame that is unparseable or of unknown kind and
\* another has answered a failing KV call with a 500 error; both are past
\* their handlers, in their loops, and registered.
C16_Witness ==
    \E u \in Actors : \E v \in Actors \ {u} :
        /\ pc[u] = "activity" /\ msg[u] \in {UnknownFrame, BadFrame}
        /\ u \in connections
        /\ pc[v] = "activity" /\ v \in connections
        /\ \E i \in 1..Len(sent[v]) : sent[v][i].type = "error" /\ sent[v][i].code = 500

\* The positions of handleJoinRoom and handleLeaveRoom at which the next
\* statement is a call to the KV, the calls of the sweep left aside.
HandlerKVCalls ==
    {"lv_others", "lv_get", "lv_put", "lv_user",
     "j_full", "jr_get", "ar_get", "ar_put", "jr_user", "j_others"}

\* C17: when a call to the KV fails while a join_room or a leave_room frame of
\* u is handled, the handler turns to writing an error frame with code 500 to
\* u (and, by C16, the loop of u goes on).
C17_KVFailureYields500 ==
    [][\A u \in Actors :
          (Handling(u) /\ pc[u] \in HandlerKVCalls /\ KVFail(u) /\ ~RoomStep(u)) =>
              /\ pc'[u] \in {"w_self", "lv_err"}
              /\ loc'[u].out.to = u
              /\ loc'[u].out.type = "error"
              /\ loc'[u].out.code = 500]_vars

\* C18: RoomService.JoinRoom(v, r) fails with "room is full" exactly when the
\* record of r holds MaxRoomUsers members and v is not one of them; called for
\* a member of a full room it succeeds and leaves the member list as it is.
C18_FullOnlyForNonMember ==
    [][\A v \in Users : \A r \in RoomIds :
          JoinRoomCall(1, v, r) =>
              LET full == Len(GetRoomUsers(r)) >= MaxRoomUsers
                  member == Contains(GetRoomUsers(r), v)
              IN  /\ (pc'[1] = "svc_full") = (full /\ ~member)
                  /\ (full /\ member) =>
                         /\ pc'[1] = "svc_ok"
                         /\ GetRoomUsers(r)' = GetRoomUsers(r)]_vars

\* C19: no room record of the KV has an empty member list: a record that
\* exists lists somebody, and the record of a room the last member left, or
\* was swept from, is absent.
C19_NoEmptyRecord ==
    \A r \in RoomKeys : GetRoom(r).exists => ~IsEmpty(GetRoom(r).users)

\* The only user that ever joined a room has been removed from its record by
\* RemoveUserFromRoom, and a read of the room finds no record.
C19_Witness ==
    \E u \in Actors :
        /\ pc[u] = "lv_user"
        /\ kvUser[u].room = roomID[u]
        /\ roomID[u] # ""
        /\ ~GetRoom(roomID[u]).exists
        /\ \A v \in Users \ {u} : pc[v] = "new"

\* C20: whatever joins (a join of the room the user is in included), leaves,
\* sweeps and disconnects took place, no id occurs twice in the member list of
\* a room record.
C20_NoDuplicateMember ==
    \A r \in RoomKeys :
        \A i \in 1..Len(GetRoomUsers(r)) : \A j \in 1..Len(GetRoomUsers(r)) :
            GetRoomUsers(r)[i] = GetRoomUsers(r)[j] => i = j

\* A user whose cached room is R has sent join_room for R again, and
\* AddUserToRoom has saved the record of R, which lists the user.
C20_Witness ==
    \E u \in Actors :
        /\ pc[u] = "jr_user"
        /\ roomID[u] # ""
        /\ roomID[u] = msg[u].room
        /\ Contains(GetRoomUsers(roomID[u]), u)

\* The stream in slot c has been given its user id.
Upgraded(c) == userID[c] # NoId

\* The stream in slot c is between its AddConnection and the end of its
\* RemoveConnection.
Connected(c) == pc[c] \notin {"new", "add", "gone"}

Admitted(u, r) == pc[u] = "jr_user" /\ loc[u].rid = r

\* C22: when two joins that ran concurrently on a room of MaxRoomUsers - 1
\* members have both been admitted, the room record holds both joiners, that
\* is MaxRoomUsers + 1 members.
C22_BothAdmittedBothListed ==
    \A u \in Actors : \A v \in Actors \ {u} :
        (Admitted(u, "A") /\ Admitted(v, "A")) =>
            /\ Contains(GetRoomUsers("A"), u)
            /\ Contains(GetRoomUsers("A"), v)
            /\ Len(GetRoomUsers("A")) = MaxRoomUsers + 1

\* C23: the registry stays usable after a connection that was in a room has
\* closed: a task that waits for the registry mutex (a lookup of
\* GetConnection, an AddConnection, a handler of another connection) waits
\* for a holder that can take its next step and so release the mutex.
C23_RegistryUsable ==
    \A v \in Actors :
        (pc[v] \in MutexWaits /\ ~MutexFree(node[v]) /\ connMutex[node[v]] # v)
        => ENABLED RoomStep(connMutex[node[v]])

\* C24: when the join of u to room R comes to its capacity check, the sweep
\* has removed every member of R's record without a registry entry on the
\* node and kept every member with one (the quiet members of room "A" and
\* the connections whose cached room is R); so the room is found full only if
\* MaxRoomUsers members are connected.
C24_SweepRemovesStale ==
    \A u \in Users :
        pc[u] = "j_full" =>
            LET r == loc[u].rid
                rec == GetRoomUsers(r)
            IN  /\ \A i \in 1..Len(rec) : Registered(node[u], rec[i])
                /\ \A v \in connections :
                       ((v \in Members /\ r = "A") \/ (v \in Users /\ roomID[v] = r))
                       => Contains(rec, v)
                /\ IsRoomFull(r) => FullOfLive(r)

\* The record of room "A" was filled with stale members, none of them
\* connected; the join of u was admitted and the record lists u alone.
C24_Witness ==
    \E u \in Users :
        /\ JoinSucceeded(u)
        /\ msg[u].room = "A"
        /\ connections \cap Members = {}
        /\ GetRoomUsers("A") = <<u>>
        /\ \A v \in Users \ {u} : pc[v] = "new"

\* The frames of kind t about user u that the task of u wrote to v.
FramesAbout(u, v, t) ==
    SelectSeq(sent[u], LAMBDA f : f.to = v /\ f.type = t /\ f.uid = u)

\* The elements of a sequence.
Range(q) == {q[i] : i \in 1..Len(q)}

\* The step of u ends the fan-out of user_left of the leave that handleJoinRoom
\* does first, and goes on to the sweep of the target room.
LeaveFirstEnds(u) ==
    /\ pc[u] \in {"bc_get", "bc_write"}
    /\ loc[u].out.type = "user_left"
    /\ loc[u].ret = "j_sweep"
    /\ pc'[u] = "j_sweep"

\* C25: a join_room for room B from a sender whose cached room is A # B first
\* takes the sender out of A's record and writes one user_left frame to each
\* other member of A that is connected, before the sweep of B begins; when the
\* join has succeeded the sender is listed in B's record and in no other, and
\* its cached room and its user session name B.
C25_SwitchLeavesFirst ==
    [][\A u \in Users :
          /\ LeaveFirstEnds(u) =>
                /\ \A r \in RoomIds :
                       r = loc[u].out.room => ~Contains(GetRoomUsers(r), u)'
                /\ roomID'[u] = ""
                /\ \A v \in Range(loc[u].out.users) :
                       Registered(node[u], v) => Len(FramesAbout(u, v, "user_left"))' = 1
          /\ pc'[u] = "j_sweep" =>
                \A r \in RoomIds : r # loc'[u].rid => ~Contains(GetRoomUsers(r), u)'
          /\ JoinSucceeded(u)' =>
                /\ roomID'[u] = msg'[u].room
                /\ kvUser'[u].room = msg'[u].room
                /\ \A r \in RoomIds : Contains(GetRoomUsers(r), u)' = (r = msg'[u].room)]_vars

\* The join of room "B" by u has succeeded, and while it was handled u wrote
\* a user_left frame for room "A" to a connected member of "A".
C25_Witness ==
    \E u \in Users : \E v \in Users \ {u} :
        /\ JoinSucceeded(u)
        /\ msg[u].room = "B"
        /\ roomID[v] = "A" /\ v \in connections
        /\ \E i \in 1..Len(sent[u]) :
              /\ sent[u][i].type = "user_left"
              /\ sent[u][i].room = "A"
              /\ sent[u][i].to = v

\* The stream of v has closed: its task is in or past the disconnect cleanup.
Closed(v) == pc[v] \in {"rm", "rm_del", "gone"} \/ InCleanup(v)

\* C26: when the stream of u, whose cached room is r, has closed, every other
\* member v of r that is connected with cached room r gets a user_left frame
\* about u, unless v closes or leaves r first.
C26_CloseNotifiesOthers ==
    \A u \in Actors : \A v \in Actors \ {u} : \A r \in RoomIds :
        (pc[u] = "rm" /\ roomID[u] = r /\ roomID[v] = r
         /\ v \in connections /\ ~Closed(v) /\ Contains(GetRoomUsers(r), v))
        ~> (\/ Len(FramesAbout(u, v, "user_left")) > 0
            \/ Closed(v)
            \/ roomID[v] # r)

\* The step of u ends the handling of a leave_room frame.
LeaveEnds(u) == msg[u].type = "leave_room" /\ pc[u] # "activity" /\ pc'[u] = "activity"

\* C27: when the handling of a leave_room frame of u ends, u has no cached
\* room, is in no room record and was written no frame. If u had no cached
\* room, nothing was written and nothing changed. Otherwise every frame written
\* is a user_left about u for the room left, listing the other members of the
\* room; each of them that has a local connection got exactly one, the others
\* none.
C27_LeaveNotifiesOthers ==
    [][\A u \in Users :
          LeaveEnds(u) =>
              /\ roomID'[u] = ""
              /\ \A r \in RoomIds : ~Contains(GetRoomUsers(r), u)'
              /\ \A i \in 1..Len(sent'[u]) : sent'[u][i].to # u
              /\ CASE pc[u] = "hm" ->
                        /\ roomID[u] = ""
                        /\ sent'[u] = <<>>
                        /\ UNCHANGED <<kvRoom, kvUser, roomID, connections>>
                   [] pc[u] = "lv_lock" ->
                        /\ GetOtherUsersInRoom(roomID[u], u) = <<>>
                        /\ sent'[u] = <<>>
                   [] OTHER ->
                        LET f == loc[u].out IN
                        /\ f.type = "user_left"
                        /\ f.uid = u
                        /\ \A r \in RoomIds : r = f.room => f.users = GetRoomUsers(r)'
                        /\ \A v \in Range(f.users) :
                              Len(FramesAbout(u, v, "user_left"))' =
                                  (IF Registered(node[u], v) THEN 1 ELSE 0)
                        /\ \A i \in 1..Len(sent'[u]) :
                              /\ sent'[u][i].type = "user_left"
                              /\ sent'[u][i].uid = u
                              /\ sent'[u][i].room = f.room
                              /\ sent'[u][i].users = f.users
                              /\ sent'[u][i].to \in Range(f.users)]_vars

\* The leave_room of u has been handled: the two other members of the room,
\* both connected, were written one user_left frame each.
C27_Witness ==
    \E u \in Users :
        /\ pc[u] = "activity"
        /\ msg[u].type = "leave_room"
        /\ roomID[u] = ""
        /\ Len(sent[u]) = 2
        /\ sent[u][1].type = "user_left" /\ sent[u][2].type = "user_left"
        /\ sent[u][1].to # sent[u][2].to
        /\ sent[u][1].users = GetRoomUsers(sent[u][1].room)
        /\ Len(sent[u][1].users) = 2

\* C28: an offer, answer or ice_candidate of a sender without a cached room,
\* or without target_id, never reaches forwardToUser; when it has been
\* handled, the one frame written is an error frame to the sender with code
\* 400 and the text "User not in a room", respectively the target-required
\* text of the kind.
C28_RelayRejected ==
    \A u \in Users :
        (msg[u].type \in RelayTypes /\ (roomID[u] = "" \/ msg[u].target = NoId)) =>
            /\ pc[u] \notin {"fw_get", "fw_write"}
            /\ \A i \in 1..Len(sent[u]) : sent[u][i].to = u
            /\ pc[u] = "activity" =>
                  /\ Len(sent[u]) = 1
                  /\ sent[u][1].type = "error"
                  /\ sent[u][1].code = 400
                  /\ sent[u][1].text =
                         (IF roomID[u] = "" THEN "User not in a room"
                          ELSE TargetRequired(msg[u].type))

\* An answer without target_id from a sender in a room has been handled.
C28_Witness ==
    \E u \in Users :
        /\ pc[u] = "activity"
        /\ msg[u].type = "answer"
        /\ msg[u].target = NoId
        /\ roomID[u] # ""
        /\ Len(sent[u]) = 1
        /\ sent[u][1].text = "Target user ID required for answer"

\* C29: when a frame that does not parse, or a frame of unknown kind, has
\* been handled, the sender was written an error frame, with code 400 for
\* the frame that does not parse, and its task is back in the read loop.
C29_ErrorFrameForBadInput ==
    \A u \in Actors :
        (pc[u] = "activity" /\ msg[u] \in {BadFrame, UnknownFrame}) =>
            \E i \in 1..Len(sent[u]) :
                /\ sent[u][i].type = "error"
                /\ sent[u][i].to = u
                /\ msg[u] = BadFrame => sent[u][i].code = 400

\* C30: while a join_room of u for a room that is full of connected members,
\* u not among them, is handled (the answer is room_full), no step changes
\* the cached room of u or a room record, and the only frame written is the
\* room_full reply: u stays a member of the room it was in and that room's
\* members get no user_left.
C30_RoomFullNoEffect ==
    [][\A u \in Users :
          (/\ Handling(u)
           /\ msg[u].type = "join_room"
           /\ msg[u].data = <<"obj">>
           /\ roomID[u] # ""
           /\ FullOfLive(msg[u].room)
           /\ ~Contains(GetRoomUsers(msg[u].room), u))
          => /\ roomID'[u] = roomID[u]
             /\ kvRoom' = kvRoom
             /\ \A i \in 1..Len(sent'[u]) : sent'[u][i].type = "room_full"]_vars

\* The join_room of u has been answered with the error frame 500 "Failed to
\* join room".
JoinAnsweredFailed(u) ==
    /\ pc[u] = "activity"
    /\ msg[u].type = "join_room"
    /\ \E i \in 1..Len(sent[u]) :
          /\ sent[u][i].type = "error"
          /\ sent[u][i].code = 500
          /\ sent[u][i].text = "Failed to join room"

\* C31: when the join_room of u for a room it was not in has been answered
\* with 500 "Failed to join room", u is not a member of the record of that
\* room and the cached room of u does not name it.
C31_FailedJoinNoMember ==
    \A u \in Actors :
        (JoinAnsweredFailed(u) /\ roomID[u] # msg[u].room) =>
            ~Contains(GetRoomUsers(msg[u].room), u)

\* C32: at every moment a user id is listed in at most one room record,
\* however the joins and leaves of the user interleave with the joins,
\* leaves, sweeps and disconnects of others.
C32_OneRoomPerUser ==
    \A u \in Users : \A r \in RoomIds : \A q \in RoomIds :
        (Contains(GetRoomUsers(r), u) /\ Contains(GetRoomUsers(q), u)) => r = q

\* C33: an offer, answer or ice_candidate of u is written only to the stream
\* of a connection whose cached room is the cached room of u.
C33_RelayWithinRoom ==
    \A u \in Users :
        \A i \in 1..Len(sent[u]) :
            (sent[u][i].via = "relay" /\ sent[u][i].to \in Users)
            => /\ roomID[u] # ""
               /\ roomID[sent[u][i].to] = roomID[u]

\* The task of u wrote the user_joined echo to its own stream.
JoinEchoed(u) ==
    \E i \in 1..Len(sent[u]) : sent[u][i].type = "user_joined" /\ sent[u][i].to = u

\* C34: after each successful join (the user_joined echo is sent) the cached
\* room is non-empty and names the room whose record contains the user, so
\* the disconnect cleanup removes every member a join added.
C34_JoinCachesRoom ==
    \A u \in Users :
        (JoinSucceeded(u) /\ JoinEchoed(u)) =>
            /\ roomID[u] # ""
            /\ Contains(GetRoomUsers(roomID[u]), u)

\* C35: the user_id of every relayed or fanned-out frame is the id of the
\* connection whose inbound frame triggered it, whatever user_id the client
\* wrote into that frame.
C35_SenderIdFromConnection ==
    \A u \in Users :
        \A i \in 1..Len(sent[u]) :
            sent[u][i].via \in {"relay", "fanout"} => sent[u][i].uid = userID[u]

\* A frame that claimed the id of another user was relayed to a live target.
C35_Witness ==
    \E u \in Users :
        /\ pc[u] = "activity"
        /\ msg[u].type = "offer"
        /\ msg[u].uid \notin {NoId, userID[u]}
        /\ \E i \in 1..Len(sent[u]) :
              sent[u][i].via = "relay" /\ sent[u][i].live /\ sent[u][i].to # u

\* C37: when the handling of a frame of u ends (UpdateUserActivity, the
\* activity of u on its own node), u is a member of the record of its cached
\* room: a member that a sweep on another node evicted is added back.
C37_EvictedAddedBack ==
    [][\A u \in Users : \A r \in RoomIds :
          (pc[u] = "activity" /\ pc'[u] = "idle" /\ roomID[u] = r)
              => Contains(GetRoomUsers(r), u)']_vars

\* C38: the frames of one stream are handled one at a time: the handling of
\* a frame starts only at the top of the read loop, after the handling of the
\* frame before it (HandleMessage, then UpdateUserActivity) has completed.
C38_OneFrameAtATime ==
    [][\A u \in Users :
          (pc'[u] = "hm" /\ pc[u] # "hm")
              => (pc[u] = "idle" /\ msg[u] = NoMsg /\ sent[u] = <<>>)]_vars

\* A later frame of a stream is being handled: an earlier join_room of the
\* same stream has completed.
C38_Witness ==
    \E u \in Users : pc[u] = "hm" /\ roomID[u] \in RoomIds /\ msg[u].type = "leave_room"

\* ------------------------------------------------------- keep-alive task

\* handleConnection has left its read loop: the deferred ticker.Stop() has
\* run, so ticker.C delivers no further tick.
TickerStopped(u) == Closed(u)

\* The done channel is closed only by the keep-alive goroutine's own deferred
\* close(done); nothing else in handleConnection closes or sends on it.
DoneClosed(u) == ping[u] = "ended"

\* The select of the keep-alive goroutine, in the first pass of its loop
\* ("select") or in a later one ("again"): a tick starts a ping write, a
\* closed done channel ends the goroutine.
PingSelect(u) ==
    /\ ping[u] \in {"select", "again"}
    /\ DoneClosed(u) \/ ~TickerStopped(u)
    /\ ping' = [ping EXCEPT ![u] = IF DoneClosed(u) THEN "ended" ELSE "write"]
    /\ UNCHANGED <<kvRoom, kvUser, node, userID, connections, roomID, connMutex, pc, msg, loc, sent, nread>>

\* conn.WriteMessage(PingMessage) succeeds: back to the select. The deferred
\* conn.Close() of HandleWebSocket has not run.
PingWriteOk(u) ==
    /\ ping[u] = "write"
    /\ pc[u] # "gone"
    /\ ping' = [ping EXCEPT ![u] = "again"]
    /\ UNCHANGED <<kvRoom, kvUser, node, userID, connections, roomID, connMutex, pc, msg, loc, sent, nread>>

\* conn.WriteMessage(PingMessage) fails (write deadline, peer gone, closed
\* connection): the error is logged, the goroutine returns and closes done.
PingWriteFail(u) ==
    /\ ping[u] = "write"
    /\ ping' = [ping EXCEPT ![u] = "ended"]
    /\ UNCHANGED <<kvRoom, kvUser, node, userID, connections, roomID, connMutex, pc, msg, loc, sent, nread>>

PingStep(u) ==
    \/ PingSelect(u)
    \/ PingWriteOk(u)
    \/ PingWriteFail(u)

\* Joins and leaves handled one at a time, each connection with its
\* keep-alive task running beside its read loop.
NextPing ==
    \/ \E u \in Users :
          /\ \A v \in Users \ {u} : AtRest(v)
          /\ \/ RoomStep(u)
             \/ \E f \in {JoinFrame("A"), LeaveFrame} : ReadMessage(u, f)
    \/ \E u \in Users : PingStep(u)

SpecPing == Init /\ [][NextPing]_vars

\* C36: after a keep-alive ping write of a stream failed, the read loop of
\* that stream reads and handles no further inbound frame.
C36_PingFailureEndsStream ==
    [][\A u \in Users :
          ping[u] = "ended" => ~(pc[u] = "idle" /\ pc'[u] = "hm")]_vars

\* C39: when the read loop of a connection has ended, its keep-alive task
\* has terminated or can still take a step: it is not blocked forever.
C39_PingEndsWithLoop ==
    \A u \in Users :
        Closed(u) => (ping[u] = "ended" \/ ENABLED PingStep(u))

====
